---- MODULE Spec2Model ----
(***************************************************************************)
(* Model of poetry_scripts.py: a command dispatcher that shells out to     *)
(* mkdocs and mike.  One run of the process is one behaviour: the process  *)
(* is started either through an entry-point binding (the bound function is *)
(* called directly) or as a standalone script (the __main__ block reads    *)
(* the command name from sys.argv and dispatches).                         *)
(*                                                                         *)
(* The external tools are assumed to be present on the execution path, so  *)
(* subprocess.run always spawns the child; the child terminates with an    *)
(* arbitrary status of its own choosing.                                   *)
(***************************************************************************)
EXTENDS Integers, Sequences, FiniteSets, TLC

VARIABLES
    entry,        \* how the process was started: a bound function or "__main__"
    sys_argv,     \* sys.argv; sys_argv[1] is Python's sys.argv[0]
    os_environ,   \* contents of the os.environ mapping of the dispatcher
    environ0,     \* history: os.environ as it was when the process started
    pc,           \* position of the interpreter
    command,      \* __main__: local `command`
    args,         \* deploy_version: local `args`
    version,      \* deploy_version: local `version`
    message,      \* deploy_version: local `message`
    cmd,          \* deploy_version: local `cmd`
    env,          \* build_pdf: the object the local name `env` refers to
    env_copy,     \* contents of the mapping created by os.environ.copy()
    stdout,       \* lines printed so far
    child_state,  \* "none", "running" or "exited"
    child_argv,   \* argument vector the child was spawned with
    child_env,    \* environment the child was spawned with
    child_status, \* exit status of the child, NoStatus until it exits
    spawn_count,  \* number of calls of subprocess.run that spawned a process
    printed_at_spawn, \* history: number of lines on stdout when the child was spawned
    exit_status   \* exit status of the dispatcher, NoStatus while it runs

vars == <<entry, sys_argv, os_environ, environ0, pc, command, args, version,
          message, cmd, env, env_copy, stdout, child_state, child_argv,
          child_env, child_status, spawn_count, printed_at_spawn, exit_status>>

----------------------------------------------------------------------------
(* Bounds and input alphabets *)

MaxArgs == 3      \* command-line arguments after sys.argv[0]
MaxStatus == 2    \* the child's exit status ranges over 0..MaxStatus

NoStatus == -1

Tokens == {"serve", "build", "build-pdf", "deploy-version",
           "Serve", "", "1.0.0", "Initial release"}

EnvKeys == {"CI", "ENABLE_PDF_EXPORT"}
EnvValues == {"0", "1"}

SeqsUpTo(S, n) == UNION {[1..k -> S] : k \in 0..n}

Environs == UNION {[D -> EnvValues] : D \in SUBSET EnvKeys}

EmptyEnv == [k \in {} |-> ""]

Entries == {"serve", "build", "build_pdf", "deploy_version", "__main__"}

\* sys.argv[0]: the name the process was started under
ProgName(e) ==
    CASE e = "serve" -> "serve"
      [] e = "build" -> "build"
      [] e = "build_pdf" -> "build-pdf"
      [] e = "deploy_version" -> "deploy-version"
      [] OTHER -> "poetry_scripts.py"

----------------------------------------------------------------------------
(* Python helpers *)

\* a[1:]
Slice1(a) == SubSeq(a, 2, Len(a))

\* mutant: the guard on the message is dropped
Truthy_Always(s) == TRUE

\* truthiness of a str
Truthy(s) == s # ""

\* mutant: the call does not wait for the child (Popen instead of run)
subprocess_run_no_wait(st) == st \in {"running", "exited"}

\* subprocess.run blocks until the child has terminated
subprocess_run_returns(st) == st = "exited"

\* mutant: `env = os.environ`, an alias of the parent's mapping
environ_alias == "os.environ"

\* os.environ.copy() creates a new mapping object
environ_copy == "copy"

\* env["ENABLE_PDF_EXPORT"] = "1" on a mapping with contents m
SetPdfFlag(m) ==
    [k \in (DOMAIN m) \cup {"ENABLE_PDF_EXPORT"} |->
        IF k = "ENABLE_PDF_EXPORT" THEN "1" ELSE m[k]]

\* contents of the mapping object named by reference r
Deref(r) == IF r = "os.environ" THEN os_environ ELSE env_copy

----------------------------------------------------------------------------
(* deploy_version, lines 29-35 *)

DefaultMessage(v) == "Deploy version " \o v

ResolveVersion(a) == IF Len(a) > 0 THEN a[1] ELSE "latest"

ResolveMessage(a, v) == IF Len(a) > 1 THEN a[2] ELSE DefaultMessage(v)

\* mutant: the alias is passed before the version
DeployCmdBase_AliasFirst(v) ==
    <<"mike", "deploy", "--push", "--update-aliases", "latest", v>>

DeployCmdBase(v) == <<"mike", "deploy", "--push", "--update-aliases", v, "latest">>

DeployCmd(v, m) ==
    IF Truthy(m) THEN DeployCmdBase(v) \o <<"-m", m>> ELSE DeployCmdBase(v)

\* lines 37-38
VersionLine(v) == "Deploying documentation version: " \o v

MessageLine(m) == "Commit message: " \o m

\* mutant: the deploy is run before the two lines are printed
DeployNext_RunFirst(p) ==
    CASE p = "deploy_version" -> "deploy_cmd"
      [] p = "deploy_cmd" -> "deploy_run"
      [] p = "deploy_run" -> "deploy_print_version"
      [] p = "deploy_print_version" -> "deploy_print_message"
      [] p = "deploy_print_message" -> "wait"

\* statement order of deploy_version, lines 29-39: resolve the arguments,
\* build cmd, print the version, print the message, run
DeployNext(p) ==
    CASE p = "deploy_version" -> "deploy_cmd"
      [] p = "deploy_cmd" -> "deploy_print_version"
      [] p = "deploy_print_version" -> "deploy_print_message"
      [] p = "deploy_print_message" -> "deploy_run"
      [] p = "deploy_run" -> "wait"

(* __main__, lines 44-57 *)
CommandNames == {"serve", "build", "build-pdf", "deploy-version"}

\* mutant: the default command is build
ReadCommand_DefaultBuild(a) == IF Len(a) > 1 THEN a[2] ELSE "build"

ReadCommand(a) == IF Len(a) > 1 THEN a[2] ELSE "serve"

\* mutant: the diagnostic does not name the token
UnknownLine_NoToken(c) == "Unknown command"

UnknownLine(c) == "Unknown command: " \o c

AvailableLine == "Available commands: serve, build, build-pdf, deploy-version"

\* exit status of the interpreter when the called function returns: the
\* CompletedProcess returned by subprocess.run is discarded
StatusOnReturn(returncode) == 0

----------------------------------------------------------------------------
Init ==
    /\ entry \in Entries
    /\ sys_argv \in {<<ProgName(entry)>> \o t : t \in SeqsUpTo(Tokens, MaxArgs)}
    /\ os_environ \in Environs
    /\ environ0 = os_environ
    /\ pc = "start"
    /\ command = ""
    /\ args = <<>>
    /\ version = ""
    /\ message = ""
    /\ cmd = <<>>
    /\ env = "none"
    /\ env_copy = EmptyEnv
    /\ stdout = <<>>
    /\ child_state = "none"
    /\ child_argv = <<>>
    /\ child_env = EmptyEnv
    /\ child_status = NoStatus
    /\ spawn_count = 0
    /\ printed_at_spawn = 0
    /\ exit_status = NoStatus

inputs == <<entry, sys_argv, environ0>>
deploy_locals == <<args, version, message, cmd>>
env_locals == <<env, env_copy>>
child_vars == <<child_state, child_argv, child_env, child_status, spawn_count,
                printed_at_spawn>>

\* subprocess.run(argv, env=e): spawn the child and block; `next` is the
\* position of the caller once the call is under way
Spawn(argv, e, next) ==
    /\ child_state' = "running"
    /\ child_argv' = argv
    /\ child_env' = e
    /\ spawn_count' = spawn_count + 1
    /\ printed_at_spawn' = Len(stdout)
    /\ UNCHANGED child_status
    /\ pc' = next

\* An entry-point binding calls its function directly
CallBound ==
    /\ pc = "start"
    /\ entry # "__main__"
    /\ pc' = entry
    /\ UNCHANGED <<inputs, os_environ, command, deploy_locals, env_locals,
                   stdout, child_vars, exit_status>>

\* line 44
MainReadCommand ==
    /\ pc = "start"
    /\ entry = "__main__"
    /\ command' = ReadCommand(sys_argv)
    /\ pc' = "dispatch"
    /\ UNCHANGED <<inputs, os_environ, deploy_locals, env_locals, stdout,
                   child_vars, exit_status>>

\* lines 46-53
DispatchTo(name, fn) ==
    /\ pc = "dispatch"
    /\ command = name
    /\ pc' = fn
    /\ UNCHANGED <<inputs, os_environ, command, deploy_locals, env_locals,
                   stdout, child_vars, exit_status>>

DispatchServe == DispatchTo("serve", "serve")
DispatchBuild == DispatchTo("build", "build")
DispatchBuildPdf == DispatchTo("build-pdf", "build_pdf")
DispatchDeployVersion == DispatchTo("deploy-version", "deploy_version")

\* lines 54-57
DispatchUnknown ==
    /\ pc = "dispatch"
    /\ command \notin CommandNames
    /\ stdout' = stdout \o <<UnknownLine(command), AvailableLine>>
    /\ exit_status' = 1
    /\ pc' = "exited"
    /\ UNCHANGED <<inputs, os_environ, command, deploy_locals, env_locals,
                   child_vars>>

\* lines 6-8
serve ==
    /\ pc = "serve"
    /\ Spawn(<<"mkdocs", "serve">>, os_environ, "wait")
    /\ UNCHANGED <<inputs, os_environ, command, deploy_locals, env_locals,
                   stdout, exit_status>>

\* lines 11-13
build ==
    /\ pc = "build"
    /\ Spawn(<<"mkdocs", "build">>, os_environ, "wait")
    /\ UNCHANGED <<inputs, os_environ, command, deploy_locals, env_locals,
                   stdout, exit_status>>

\* line 18
build_pdf_copy ==
    /\ pc = "build_pdf"
    /\ env' = environ_copy
    /\ env_copy' = os_environ
    /\ pc' = "build_pdf_set"
    /\ UNCHANGED <<inputs, os_environ, command, deploy_locals, stdout,
                   child_vars, exit_status>>

\* line 19: the store goes to the object `env` refers to
build_pdf_set ==
    /\ pc = "build_pdf_set"
    /\ IF env = "os.environ"
         THEN /\ os_environ' = SetPdfFlag(os_environ)
              /\ UNCHANGED env_copy
         ELSE /\ env_copy' = SetPdfFlag(env_copy)
              /\ UNCHANGED os_environ
    /\ pc' = "build_pdf_run"
    /\ UNCHANGED <<inputs, command, deploy_locals, env, stdout, child_vars,
                   exit_status>>

\* line 20
build_pdf_run ==
    /\ pc = "build_pdf_run"
    /\ Spawn(<<"mkdocs", "build">>, Deref(env), "wait")
    /\ UNCHANGED <<inputs, os_environ, command, deploy_locals, env_locals,
                   stdout, exit_status>>

\* lines 29-31
deploy_resolve ==
    /\ pc = "deploy_version"
    /\ args' = Slice1(sys_argv)
    /\ version' = ResolveVersion(args')
    /\ message' = ResolveMessage(args', version')
    /\ pc' = DeployNext("deploy_version")
    /\ UNCHANGED <<inputs, os_environ, command, cmd, env_locals, stdout,
                   child_vars, exit_status>>

\* lines 33-35
deploy_cmd ==
    /\ pc = "deploy_cmd"
    /\ cmd' = DeployCmd(version, message)
    /\ pc' = DeployNext("deploy_cmd")
    /\ UNCHANGED <<inputs, os_environ, command, args, version, message,
                   env_locals, stdout, child_vars, exit_status>>

\* line 37
deploy_print_version ==
    /\ pc = "deploy_print_version"
    /\ stdout' = Append(stdout, VersionLine(version))
    /\ pc' = DeployNext("deploy_print_version")
    /\ UNCHANGED <<inputs, os_environ, command, deploy_locals, env_locals,
                   child_vars, exit_status>>

\* line 38
deploy_print_message ==
    /\ pc = "deploy_print_message"
    /\ stdout' = Append(stdout, MessageLine(message))
    /\ pc' = DeployNext("deploy_print_message")
    /\ UNCHANGED <<inputs, os_environ, command, deploy_locals, env_locals,
                   child_vars, exit_status>>

\* line 39
deploy_run ==
    /\ pc = "deploy_run"
    /\ Spawn(cmd, os_environ, DeployNext("deploy_run"))
    /\ UNCHANGED <<inputs, os_environ, command, deploy_locals, env_locals,
                   stdout, exit_status>>

\* The external tool terminates with a status of its own choosing
ChildExit ==
    /\ child_state = "running"
    /\ \E s \in 0..MaxStatus : child_status' = s
    /\ child_state' = "exited"
    /\ UNCHANGED <<inputs, os_environ, pc, command, deploy_locals, env_locals,
                   stdout, child_argv, child_env, spawn_count,
                   printed_at_spawn, exit_status>>

\* subprocess.run returns, the function returns, the interpreter exits
Return ==
    /\ pc = "wait"
    /\ subprocess_run_returns(child_state)
    /\ exit_status' = StatusOnReturn(child_status)
    /\ pc' = "exited"
    /\ UNCHANGED <<inputs, os_environ, command, deploy_locals, env_locals,
                   stdout, child_vars>>

Next ==
    \/ CallBound
    \/ MainReadCommand
    \/ DispatchServe
    \/ DispatchBuild
    \/ DispatchBuildPdf
    \/ DispatchDeployVersion
    \/ DispatchUnknown
    \/ serve
    \/ build
    \/ build_pdf_copy
    \/ build_pdf_set
    \/ build_pdf_run
    \/ deploy_resolve
    \/ deploy_cmd
    \/ deploy_print_version
    \/ deploy_print_message
    \/ deploy_run
    \/ ChildExit
    \/ Return

Spec == Init /\ [][Next]_vars

----------------------------------------------------------------------------
(* Vocabulary of the properties *)

Standalone == entry = "__main__"

\* the command-line arguments that follow the command-name token: the token
\* is sys.argv[0] under an entry-point binding and sys.argv[1] standalone
GivenArgs ==
    IF Standalone THEN SubSeq(sys_argv, 3, Len(sys_argv)) ELSE Slice1(sys_argv)

\* the run executes deploy_version
InDeploy ==
    \/ entry = "deploy_version"
    \/ Standalone /\ pc # "start" /\ command = "deploy-version"

\* the run executes build_pdf
InBuildPdf ==
    \/ entry = "build_pdf"
    \/ Standalone /\ pc # "start" /\ command = "build-pdf"

\* version and message have been resolved (lines 29-31 have run)
DeployResolved == InDeploy /\ pc \notin {"start", "dispatch", "deploy_version"}

\* the external deploy process has been invoked
DeployInvoked == InDeploy /\ child_state # "none"

\* s occurs in line
Contains(line, s) ==
    \/ s = ""
    \/ \E i \in 1..Len(line) : \E j \in i..Len(line) : SubSeq(line, i, j) = s

Printed(s) == \E i \in 1..Len(stdout) : Contains(stdout[i], s)

\* the first command-line argument names no command
UnrecognizedRun ==
    Standalone /\ Len(sys_argv) > 1 /\ sys_argv[2] \notin CommandNames

FullDeployVector(v, m) ==
    <<"mike", "deploy", "--push", "--update-aliases", v, "latest", "-m", m>>

ShortDeployVector(v) ==
    <<"mike", "deploy", "--push", "--update-aliases", v, "latest">>

----------------------------------------------------------------------------
(* C1: standalone, a first argument that is not exactly one of the four    *)
(* command names: once the command has been matched the process has exited *)
(* with status 1 without spawning anything, and its output contains the    *)
(* token and the four valid names.                                         *)
C1_UnknownCommandExitsOne ==
    (UnrecognizedRun /\ pc \notin {"start", "dispatch"}) =>
        /\ pc = "exited"
        /\ exit_status = 1
        /\ Printed(sys_argv[2])
        /\ \A n \in CommandNames : Printed(n)

C1_Witness ==
    /\ UnrecognizedRun
    /\ sys_argv[2] = "Serve"
    /\ pc = "exited"
    /\ exit_status = 1

(* C2: deploy_version takes version and message from the arguments that    *)
(* follow the command-name token in both invocation modes: with V and M    *)
(* given the resolved version is V and the resolved message is M, and with *)
(* nothing after the command name the resolved version is "latest".        *)
C2_DeployArgsFollowCommandName ==
    DeployResolved =>
        /\ Len(GivenArgs) >= 2 =>
              version = GivenArgs[1] /\ message = GivenArgs[2]
        /\ Len(GivenArgs) = 0 => version = "latest"

(* C3: for a recognized command the exit status of the dispatcher is the   *)
(* status the external tool terminated with.                               *)
C3_ExitStatusPropagated ==
    (pc = "exited" /\ child_state = "exited") => exit_status = child_status

(* C4: build_pdf started in an environment E without ENABLE_PDF_EXPORT:    *)
(* the dispatcher's own environment is E at every step, and the child is   *)
(* invoked with exactly E extended by ENABLE_PDF_EXPORT = "1".             *)
C4_BuildPdfEnvIsolation ==
    (InBuildPdf /\ "ENABLE_PDF_EXPORT" \notin DOMAIN environ0) =>
        /\ os_environ = environ0
        /\ "ENABLE_PDF_EXPORT" \notin DOMAIN os_environ
        /\ child_state # "none" =>
              /\ DOMAIN child_env = (DOMAIN environ0) \cup {"ENABLE_PDF_EXPORT"}
              /\ child_env["ENABLE_PDF_EXPORT"] = "1"
              /\ \A k \in DOMAIN environ0 : child_env[k] = environ0[k]

C4_Witness ==
    /\ InBuildPdf
    /\ "ENABLE_PDF_EXPORT" \notin DOMAIN environ0
    /\ "CI" \in DOMAIN environ0
    /\ pc = "exited"
    /\ child_state = "exited"

(* C5, as stated: for every resolved version v and message m the deploy    *)
(* tool is invoked with exactly                                            *)
(* [mike, deploy, --push, --update-aliases, v, latest, -m, m].             *)
C5_Original_VectorAlwaysHasMessage ==
    DeployInvoked => child_argv = FullDeployVector(version, message)

(* C5, amended: the vector is exactly                                      *)
(* [mike, deploy, --push, --update-aliases, v, latest, -m, m] when m is    *)
(* not empty and exactly [mike, deploy, --push, --update-aliases, v,       *)
(* latest] when m is the empty string; "latest" is always the second       *)
(* deploy target.                                                          *)
C5_DeployVector ==
    DeployInvoked =>
        /\ message # "" => child_argv = FullDeployVector(version, message)
        /\ message = "" => child_argv = ShortDeployVector(version)
        /\ child_argv[6] = "latest"

C5_Witness ==
    /\ DeployInvoked
    /\ version = "1.0.0"
    /\ message = "Initial release"
    /\ child_argv = FullDeployVector("1.0.0", "Initial release")

(* C6: default resolution: with no positional argument the version is      *)
(* "latest" and the message "Deploy version latest"; with a version v and  *)
(* no message the message is "Deploy version " followed by v; a supplied   *)
(* message is used unchanged.                                              *)
C6_DefaultResolution ==
    DeployResolved =>
        /\ Len(GivenArgs) = 0 =>
              version = "latest" /\ message = "Deploy version latest"
        /\ Len(GivenArgs) = 1 =>
              version = GivenArgs[1] /\ message = "Deploy version " \o GivenArgs[1]
        /\ Len(GivenArgs) >= 2 => message = GivenArgs[2]

(* C7: the standalone dispatcher run with no argument takes the serve      *)
(* branch and issues the invocation that the explicit argument "serve"     *)
(* issues: [mkdocs, serve] in the unmodified environment, once.            *)
C7_NoArgumentIsServe ==
    (Standalone /\ pc \notin {"start", "dispatch"}
        /\ (Len(sys_argv) = 1 \/ (Len(sys_argv) > 1 /\ sys_argv[2] = "serve"))) =>
        /\ pc \in {"serve", "wait", "exited"}
        /\ pc = "serve" => child_state = "none"
        /\ pc # "serve" =>
              /\ spawn_count = 1
              /\ child_argv = <<"mkdocs", "serve">>
              /\ child_env = environ0
        /\ os_environ = environ0

C7_Witness ==
    /\ Standalone
    /\ Len(sys_argv) = 1
    /\ pc = "exited"
    /\ child_argv = <<"mkdocs", "serve">>

(* C8, as stated: the resolved message is never empty and the vector       *)
(* always contains -m followed by the resolved message, also when the      *)
(* message argument is the empty string.                                   *)
C8_Original_MessageFlagAlways ==
    DeployInvoked =>
        /\ message # ""
        /\ \E i \in 1..(Len(child_argv) - 1) :
              child_argv[i] = "-m" /\ child_argv[i + 1] = message

(* C8, amended: the resolved message is empty exactly when a second        *)
(* element of sys.argv[1:] is given and is the empty string; -m followed   *)
(* by the resolved message is appended after the alias exactly when the    *)
(* message is not empty, so the guard is live.                             *)
C8_MessageFlagIffNonEmpty ==
    DeployResolved =>
        /\ message = "" <=> (Len(args) > 1 /\ args[2] = "")
        /\ DeployInvoked =>
              IF message # ""
                THEN /\ Len(child_argv) = 8
                     /\ child_argv[7] = "-m"
                     /\ child_argv[8] = message
                ELSE Len(child_argv) = 6

C8_Witness ==
    /\ DeployInvoked
    /\ Len(args) > 1
    /\ args[2] = ""
    /\ message = ""
    /\ Len(child_argv) = 6

(* C9: at most one external process is ever spawned; a finished run of a   *)
(* recognized command has spawned exactly one, and that one has            *)
(* terminated; a run of an unrecognized command never spawns one.          *)
C9_OneProcessAwaited ==
    /\ spawn_count <= 1
    /\ UnrecognizedRun => spawn_count = 0 /\ child_state = "none"
    /\ (pc = "exited" /\ ~UnrecognizedRun) =>
          spawn_count = 1 /\ child_state = "exited"

C9_Witness ==
    /\ pc = "exited"
    /\ ~UnrecognizedRun
    /\ spawn_count = 1
    /\ child_state = "exited"

(* C10, as stated: version and message are printed, in this order, before  *)
(* the deploy process is invoked, and both printed values appear in the    *)
(* argument vector passed to it.                                           *)
C10_Original_PrintedValuesInVector ==
    DeployInvoked =>
        /\ printed_at_spawn = 2
        /\ stdout[1] = "Deploying documentation version: " \o child_argv[5]
        /\ \E i \in 1..(Len(child_argv) - 1) :
              /\ child_argv[i] = "-m"
              /\ stdout[2] = "Commit message: " \o child_argv[i + 1]

(* C10, amended: version and message are printed, in this order, before    *)
(* the deploy process is invoked; the printed version is the one in the    *)
(* vector, and the printed message is the one that follows -m in the       *)
(* vector whenever the resolved message is not empty (an empty message is  *)
(* printed and not passed).                                                *)
C10_PrintedBeforeDeploy ==
    DeployInvoked =>
        /\ printed_at_spawn = 2
        /\ stdout = <<"Deploying documentation version: " \o version,
                      "Commit message: " \o message>>
        /\ child_argv[5] = version
        /\ message # "" => child_argv[7] = "-m" /\ child_argv[8] = message
        /\ message = "" => Len(child_argv) = 6

C10_Witness ==
    /\ DeployInvoked
    /\ printed_at_spawn = 2
    /\ Len(stdout) = 2
    /\ message # ""
    /\ child_argv[8] = message

====
